---- MODULE Spec2Model ----
(***************************************************************************)
(* s3-bench (script.py): a benchmark that partitions a table by grouping   *)
(* columns and uploads every partition as one object, under three          *)
(* strategies: a managed transfer facility, a thread pool with one client  *)
(* per worker slot, and a thread pool sharing one client.                  *)
(*                                                                         *)
(* Spec      the whole program: the entry point's calls of main, the main  *)
(*           thread's position, the worker threads of the transfer manager *)
(*           and of the thread pools, the bucket.                          *)
(* SpecKeys  the same program, run on tables whose values contain the      *)
(*           separators of the object key.                                 *)
(***************************************************************************)
EXTENDS Integers, Sequences, FiniteSets, TLC

(***************************************************************************)
(* Bounds of the model.                                                    *)
(***************************************************************************)
\* main(c) is explored for every c in 1..MaxConc, besides the entry point.
MaxConc == 2
\* Datasets of 1..MaxParts partitions for a single call of main.
MaxParts == 3
\* Datasets of 1..EntryParts partitions for the entry point's three calls.
EntryParts == 1
\* At most MaxFaults puts fail in one execution of the program.
MaxFaults == 1
\* Number of outcomes of the random draws explored per invocation of main.
DrawSamples == 2

(***************************************************************************)
(* Program constants.                                                      *)
(***************************************************************************)
\* grouping_cols, handed to every strategy as split_cols
grouping_cols == <<"color", "payment", "pickup_zone">>
\* the entry point: main(4); main(8); main(20)
EntryCalls == <<4, 8, 20>>
\* range(4) draws of random.randint(0, 255)
NumDraws == 4
MaxDraw == 255
\* session.client("s3") without a config: botocore's max_pool_connections
DefaultPoolConnections == 10

(***************************************************************************)
(* Strings.                                                                *)
(***************************************************************************)
RECURSIVE Join(_, _)
\* sep.join(parts)
Join(sep, parts) ==
    IF parts = <<>> THEN ""
    ELSE IF Len(parts) = 1 THEN parts[1]
    ELSE parts[1] \o sep \o Join(sep, Tail(parts))

Min(a, b) == IF a <= b THEN a ELSE b

\* A cell of the table is the sequence of its characters; f"{v}" of it is
\* the string of those characters.
Str(v) == Join("", v)

\* "/".join([f"{k}={v}" for k, v in zip(split_cols, vals)]) + "/data.csv"
Filename(split_cols, vals) ==
    Join("/", [i \in 1..Min(Len(split_cols), Len(vals)) |->
                  split_cols[i] \o "=" \o Str(vals[i])]) \o "/data.csv"

\* transfer_upload: f"run={run_prefix}/" + "method=manager/" + filename
ManagerKey(prefix, split_cols, vals) ==
    "run=" \o prefix \o "/" \o "method=manager/" \o Filename(split_cols, vals)

\* multithreaded_upload: f"method=client{f's[{len(clients)}]' if len(clients) > 1 else ''}/"
MethodTag(nclients) ==
    "method=client"
        \o (IF nclients > 1 THEN "s[" \o ToString(nclients) \o "]" ELSE "")
        \o "/"

\* multithreaded_upload: f"run={run_prefix}/" + method tag + filename
ClientKey(prefix, nclients, split_cols, vals) ==
    "run=" \o prefix \o "/" \o MethodTag(nclients) \o Filename(split_cols, vals)

\* "".join(str(random.randint(0, 255)) for i in range(4)), for the draws made
RunPrefix(draws) == Join("", [i \in 1..Len(draws) |-> ToString(draws[i])])

(***************************************************************************)
(* The dataset and its partitions.                                         *)
(***************************************************************************)
\* Printable ASCII characters in runs of consecutive code points, each run
\* with the code point of its first character.
Ascii ==
    << [first |-> 32, chars |-> <<" ", "!">>],
       [first |-> 35,
        chars |-> << "#", "$", "%", "&", "'", "(", ")", "*", "+", ",", "-",
                     ".", "/", "0", "1", "2", "3", "4", "5", "6", "7", "8",
                     "9", ":", ";", "<", "=", ">", "?", "@", "A", "B", "C",
                     "D", "E", "F", "G", "H", "I", "J", "K", "L", "M", "N",
                     "O", "P", "Q", "R", "S", "T", "U", "V", "W", "X", "Y",
                     "Z", "[" >>],
       [first |-> 93, chars |-> <<"]", "^", "_">>],
       [first |-> 97,
        chars |-> << "a", "b", "c", "d", "e", "f", "g", "h", "i", "j", "k",
                     "l", "m", "n", "o", "p", "q", "r", "s", "t", "u", "v",
                     "w", "x", "y", "z", "{", "|", "}", "~" >>] >>

\* ord(c)
CodePoint(c) ==
    LET r == CHOOSE r \in 1..Len(Ascii) :
                \E k \in 1..Len(Ascii[r].chars) : Ascii[r].chars[k] = c
        k == CHOOSE k \in 1..Len(Ascii[r].chars) : Ascii[r].chars[k] = c
    IN  Ascii[r].first + k - 1

RECURSIVE StrLess(_, _)
\* a < b for two strings: by code points, a proper prefix first.
StrLess(a, b) ==
    IF b = <<>> THEN FALSE
    ELSE IF a = <<>> THEN TRUE
    ELSE IF Head(a) = Head(b) THEN StrLess(Tail(a), Tail(b))
    ELSE CodePoint(Head(a)) < CodePoint(Head(b))

RECURSIVE TupleLess(_, _)
\* x < y for two key tuples: by the first column in which they differ.
TupleLess(x, y) ==
    IF x = <<>> \/ y = <<>> THEN FALSE
    ELSE IF Head(x) = Head(y) THEN TupleLess(Tail(x), Tail(y))
    ELSE StrLess(Head(x), Head(y))

\* A missing value (NaN) of a cell; no sequence of single characters.
NaN == <<"NaN">>

\* groupby's dropna=True: a row with a missing grouping value is in no group.
DropNa(rows) ==
    SelectSeq(rows, LAMBDA r : \A i \in 1..Len(r) : r[i] # NaN)

RECURSIVE Insert(_, _)
\* The sorted sequence of key tuples keys with x at its place, once.
Insert(keys, x) ==
    IF keys = <<>> THEN <<x>>
    ELSE IF Head(keys) = x THEN keys
    ELSE IF TupleLess(x, Head(keys)) THEN <<x>> \o keys
    ELSE <<Head(keys)>> \o Insert(Tail(keys), x)

RECURSIVE SortedKeys(_)
\* The distinct key tuples of rows, in ascending order.
SortedKeys(rows) ==
    IF rows = <<>> THEN <<>>
    ELSE Insert(SortedKeys(Tail(rows)), Head(rows))

\* data.groupby(split_cols), with its defaults sort=True and dropna=True:
\* one group per distinct tuple of the grouping columns' values, iterated in
\* ascending order of the tuples; a row is represented by its values in
\* those columns.
GroupBy(rows) == SortedKeys(DropNa(rows))

RECURSIVE Digits(_)
\* The characters of str(n), n >= 0.
Digits(n) ==
    LET digit == <<"0", "1", "2", "3", "4", "5", "6", "7", "8", "9">> IN
    IF n < 10 THEN <<digit[n + 1]>>
    ELSE Digits(n \div 10) \o <<digit[(n % 10) + 1]>>

Yellow == <<"y", "e", "l", "l", "o", "w">>
Green == <<"g", "r", "e", "e", "n">>
CreditCard == <<"c", "r", "e", "d", "i", "t", " ", "c", "a", "r", "d">>
Cash == <<"c", "a", "s", "h">>
Zone(k) == <<"Z", "o", "n", "e", " ">> \o Digits(k)
SlashPaymentCash == <<"/", "p", "a", "y", "m", "e", "n", "t", "=">> \o Cash

\* A row of a taxis-like table: colour, payment and pickup zone of trip j.
TaxiRow(j) ==
    << IF j % 2 = 1 THEN Yellow ELSE Green,
       IF (j \div 2) % 2 = 0 THEN CreditCard ELSE Cash,
       Zone(j \div 4) >>

\* A table of n + 2 trips holding n distinct combinations: one combination
\* occurs twice, and one trip has no payment recorded.
Table(n) ==
    [j \in 1..n |-> TaxiRow(j)] \o << TaxiRow(1), <<Yellow, NaN, Zone(0)>> >>

RECURSIVE Repeat(_, _)
Repeat(str, k) == IF k = 0 THEN <<>> ELSE str \o Repeat(str, k - 1)

\* Row j of n in a table whose colour and payment values contain "/" and
\* "=": a value is any string, and the key template does not escape it.
PathRow(n, j) ==
    << Green \o Repeat(SlashPaymentCash, j - 1),
       Cash \o Repeat(SlashPaymentCash, n - j),
       Zone(0) >>

\* A table of n + 1 such rows holding n distinct combinations.
PathTable(n) == [j \in 1..(n + 1) |-> PathRow(n, IF j <= n THEN j ELSE 1)]

\* Outcomes of the four draws of random.randint(0, 255) of one invocation:
\* the first of them listed, the further ones spread over the range.
DrawSample(k) ==
    LET listed == << <<1, 11, 0, 0>>, <<11, 1, 0, 0>>, <<255, 0, 7, 30>>,
                     <<197, 215, 20, 132>>, <<68, 32, 130, 60>>,
                     <<28, 46, 43, 184>> >>
    IN  IF k <= Len(listed) THEN listed[k]
        ELSE [i \in 1..NumDraws |-> (k * 37 + i * 101) % (MaxDraw + 1)]

\* The outcomes of the four draws the model explores, DrawSamples of the
\* 256^4 there are.
RunDraws ==
    { d \in { DrawSample(k) : k \in 1..DrawSamples } :
         Len(d) = NumDraws /\ \A i \in 1..Len(d) : d[i] \in 0..MaxDraw }

(***************************************************************************)
(* State of the program.                                                   *)
(***************************************************************************)
VARIABLES
    calls,       \* the calls of main the entry point has still to make
    data,        \* the table main reads, as its rows' grouping values
    run,         \* number of invocations of main started so far
    conc,        \* CONCURRENCY of the running invocation
    run_prefix,  \* run_prefix of the running invocation
    manager,     \* s3t: its client's pool size and its max_concurrency
    strat,       \* the strategy main is in or enters next: 1 transfer_upload, 2, 3:
                 \* multithreaded_upload with multi_clients True and False
    pc,          \* where the main thread is
    clients,     \* clients[s]: the clients strategy s built, by pool size
    tasks,       \* tasks[s]: futures of strategy s, one per scheduled upload
    exc,         \* the upload whose error the main thread is raising, or 0
    result,      \* bench_transfer, bench_multithread_client, ..._single_client
    logged,      \* the lines written by log.info
    puts,        \* the objects the running invocation has written to the
                 \* bucket, each with the upload that wrote it
    drawn,       \* the outcomes of the random draws of the invocations so far
    faults,      \* number of puts the storage service has failed so far
    groups       \* groups of the strategy main is in: data.groupby(split_cols)

vars == << calls, data, run, conc, run_prefix, manager, strat, pc, clients,
           tasks, exc, result, logged, puts, drawn, faults, groups >>

Strategies == 1..3
MethodNames == <<"transfer", "multithread_client", "multithread_shared_client">>
Final == {"ok", "failed"}

NoTasks == [s \in Strategies |-> <<>>]
NoClients == [s \in Strategies |-> <<>>]
NoResult == [s \in Strategies |-> "none"]

\* Uploads of strategy s that are in flight: put_object / PutObject running.
Running(s) == {i \in 1..Len(tasks[s]) : tasks[s][i].status = "running"}
\* Uploads still in the work queue, no worker thread has them.
Queued(s) == {i \in 1..Len(tasks[s]) : tasks[s][i].status = "queued"}
\* Uploads a worker thread has taken from the queue, whose put has not begun:
\* the thread is before or in data.to_csv(csvio).
Taken(s) == {i \in 1..Len(tasks[s]) : tasks[s][i].status = "taken"}
Finished(s) == {i \in 1..Len(tasks[s]) : tasks[s][i].status \in Final}
InFlight == UNION {{<<s, i>> : i \in Running(s)} : s \in Strategies}

\* The state before the entry point's first call, for the calls cs it
\* makes and the table main reads.
Boot(cs, rows) ==
    /\ calls = cs
    /\ data = rows
    /\ run = 0
    /\ conc = 0
    /\ run_prefix = ""
    /\ manager = [pool |-> 0, max_concurrency |-> 0]
    /\ strat = 1
    /\ pc = "idle"
    /\ clients = NoClients
    /\ tasks = NoTasks
    /\ exc = 0
    /\ result = NoResult
    /\ logged = <<>>
    /\ puts = {}
    /\ drawn = {}
    /\ faults = 0
    /\ groups = <<>>

\* One call main(c) on a table of up to MaxParts partitions, or the entry
\* point's three calls on a table of up to EntryParts partitions.
Init ==
    \/ \E c \in 1..MaxConc, n \in 1..MaxParts : Boot(<<c>>, Table(n))
    \/ \E n \in 1..EntryParts : Boot(EntryCalls, Table(n))

\* One call main(c) on a table whose values hold the key's separators.
InitKeys ==
    \E c \in 1..MaxConc, n \in 1..MaxParts : Boot(<<c>>, PathTable(n))

(***************************************************************************)
(* main, up to the first strategy.                                         *)
(***************************************************************************)
\* botocore.config.Config(max_pool_connections=CONCURRENCY) for s3client,
\* TransferConfig(max_concurrency=CONCURRENCY) for the manager built on it.
NewManager(c) == [pool |-> c, max_concurrency |-> c]

\* main(concurrency): session, client, manager, run_prefix; then the first
\* strategy is called.
MainStart ==
    /\ pc = "idle"
    /\ calls # <<>>
    /\ \E draws \in RunDraws :
          run_prefix' = RunPrefix(draws) /\ drawn' = drawn \cup {draws}
    /\ conc' = Head(calls)
    /\ calls' = Tail(calls)
    /\ run' = run + 1
    /\ manager' = NewManager(Head(calls))
    /\ logged' = Append(logged, [kind |-> "running", value |-> Head(calls)])
    /\ strat' = 1
    /\ pc' = "call"
    /\ clients' = NoClients
    /\ tasks' = NoTasks
    /\ result' = NoResult
    /\ exc' = 0
    /\ puts' = {}
    /\ UNCHANGED << data, faults, groups >>

(***************************************************************************)
(* Entering a strategy: its clients, its groups, t0.                       *)
(***************************************************************************)
\* NewClients with one session too many: range(conc + 1).
NewClientsOneExtra(multi_clients, c) ==
    IF multi_clients
    THEN [k \in 1..(c + 1) |-> [pool |-> DefaultPoolConnections]]
    ELSE << [pool |-> DefaultPoolConnections] >>

\* multithreaded_upload: conc clients when multi_clients, else one; each is
\* session.client("s3"), built without a config.
NewClients(multi_clients, c) ==
    IF multi_clients
    THEN [k \in 1..c |-> [pool |-> DefaultPoolConnections]]
    ELSE << [pool |-> DefaultPoolConnections] >>

\* main's two calls of multithreaded_upload: multi_clients=True for the
\* second strategy, False for the third.
MultiClients(s) == s = 2

\* main calls transfer_upload(data, grouping_cols, manager=s3t, ...), which
\* groups the table and takes t0. Its uploads go through the manager's
\* client, s3client.
TransferCall ==
    /\ pc = "call"
    /\ strat = 1
    /\ clients' = [clients EXCEPT ![1] = << [pool |-> manager.pool] >>]
    /\ groups' = GroupBy(data)
    /\ pc' = "submit"
    /\ exc' = 0
    /\ UNCHANGED << calls, data, run, conc, run_prefix, manager, strat, tasks,
                    result, logged, puts, drawn, faults >>

\* main calls multithreaded_upload(..., conc=CONCURRENCY, multi_clients=...),
\* which builds its clients, groups the table, takes t0 and opens the pool.
PoolCall ==
    /\ pc = "call"
    /\ strat \in {2, 3}
    /\ clients' = [clients EXCEPT
                      ![strat] = NewClients(MultiClients(strat), conc)]
    /\ groups' = GroupBy(data)
    /\ pc' = "submit"
    /\ exc' = 0
    /\ UNCHANGED << calls, data, run, conc, run_prefix, manager, strat, tasks,
                    result, logged, puts, drawn, faults >>

(***************************************************************************)
(* The loop over the groups: one upload scheduled per group.               *)
(***************************************************************************)
\* A future for the upload of group number part under key, through the
\* client of index c, in the work queue.
NewTask(part, key, c) ==
    [part |-> part, key |-> key, client |-> c, status |-> "queued"]

\* transfer_upload, one pass of the loop body:
\* futures.append(manager.upload(fileobj=csvio, bucket=BUCKET, key=filename))
TransferUpload ==
    /\ pc = "submit"
    /\ strat = 1
    /\ Len(tasks[1]) < Len(groups)
    /\ LET part == Len(tasks[1]) + 1
           key  == ManagerKey(run_prefix, grouping_cols, groups[part])
       IN  tasks' = [tasks EXCEPT ![1] = Append(@, NewTask(part, key, 1))]
    /\ UNCHANGED << calls, data, run, conc, run_prefix, manager, strat, pc,
                    clients, exc, result, logged, puts, drawn, faults,
                    groups >>

\* multithreaded_upload, one pass of the loop body: executor.submit of
\* _upload_using_client with client=random.choice(clients) and the key.
PoolSubmit ==
    /\ pc = "submit"
    /\ strat \in {2, 3}
    /\ Len(tasks[strat]) < Len(groups)
    /\ LET part == Len(tasks[strat]) + 1
           key  == ClientKey(run_prefix, Len(clients[strat]), grouping_cols,
                             groups[part])
       IN  \E c \in 1..Len(clients[strat]) :
              tasks' = [tasks EXCEPT
                           ![strat] = Append(@, NewTask(part, key, c))]
    /\ UNCHANGED << calls, data, run, conc, run_prefix, manager, strat, pc,
                    clients, exc, result, logged, puts, drawn, faults,
                    groups >>

\* transfer_upload: the loop has gone through every group; manager.shutdown()
\* is called.
TransferLoopEnd ==
    /\ pc = "submit"
    /\ strat = 1
    /\ Len(tasks[1]) = Len(groups)
    /\ pc' = "shutdown"
    /\ UNCHANGED << calls, data, run, conc, run_prefix, manager, strat,
                    clients, tasks, exc, result, logged, puts, drawn, faults,
                    groups >>

\* multithreaded_upload: the loop has gone through every group; the
\* as_completed loop begins.
PoolLoopEnd ==
    /\ pc = "submit"
    /\ strat \in {2, 3}
    /\ Len(tasks[strat]) = Len(groups)
    /\ pc' = "join"
    /\ UNCHANGED << calls, data, run, conc, run_prefix, manager, strat,
                    clients, tasks, exc, result, logged, puts, drawn, faults,
                    groups >>

(***************************************************************************)
(* Worker threads.                                                         *)
(***************************************************************************)
\* Threads that run uploads: the manager's request executor has
\* max_concurrency of them, ThreadPoolExecutor(conc) has conc.
Workers(s) == IF s = 1 THEN manager.max_concurrency ELSE conc

\* WorkerFree with the pool one thread too large.
WorkerFreeOffByOne(s) ==
    Cardinality(Taken(s) \cup Running(s)) <= Workers(s)

\* A worker thread of strategy s is idle: each thread has one upload at most,
\* taken or in flight.
WorkerFree(s) == Cardinality(Taken(s) \cup Running(s)) < Workers(s)

\* The uploads an idle worker may take next: the thread pool's queue is
\* first in, first out; the manager's submission stage may reorder.
Takable(s) ==
    IF s = 1 THEN Queued(s)
    ELSE {i \in Queued(s) : \A j \in Queued(s) : i <= j}

\* An idle worker thread takes upload i of strategy s from the queue and
\* enters _upload_using_client; its put has not begun.
TakeUpload(s, i) ==
    /\ i \in Takable(s)
    /\ WorkerFree(s)
    /\ tasks' = [tasks EXCEPT ![s][i].status = "taken"]
    /\ UNCHANGED << calls, data, run, conc, run_prefix, manager, strat, pc,
                    clients, exc, result, logged, puts, drawn, faults,
                    groups >>

\* The thread that took upload i calls put_object: the put is in flight.
\* Threads run freely between the take and the call, so the puts begin in
\* any order among the uploads taken.
StartUpload(s, i) ==
    /\ i \in Taken(s)
    /\ tasks' = [tasks EXCEPT ![s][i].status = "running"]
    /\ UNCHANGED << calls, data, run, conc, run_prefix, manager, strat, pc,
                    clients, exc, result, logged, puts, drawn, faults,
                    groups >>

\* The put of upload i succeeds: the object is written under its key.
UploadOk(s, i) ==
    /\ i \in Running(s)
    /\ tasks' = [tasks EXCEPT ![s][i].status = "ok"]
    /\ puts' = puts \cup {[ run |-> run, strat |-> s, part |-> tasks[s][i].part,
                            key |-> tasks[s][i].key ]}
    /\ UNCHANGED << calls, data, run, conc, run_prefix, manager, strat, pc,
                    clients, exc, result, logged, drawn, faults, groups >>

\* The put of upload i raises: its future holds the error.
UploadFail(s, i) ==
    /\ i \in Running(s)
    /\ faults < MaxFaults
    /\ faults' = faults + 1
    /\ tasks' = [tasks EXCEPT ![s][i].status = "failed"]
    /\ UNCHANGED << calls, data, run, conc, run_prefix, manager, strat, pc,
                    clients, exc, result, logged, puts, drawn, groups >>

(***************************************************************************)
(* Leaving a strategy.                                                     *)
(***************************************************************************)
\* Every scheduled upload of strategy s has finished, well or not.
Drained(s) == Finished(s) = 1..Len(tasks[s])

\* ShutdownReturns for a shutdown that does not wait for the transfers.
ShutdownNoWait == TRUE

\* manager.shutdown() returns: it waits for every transfer, ignoring their
\* errors, and shuts the executors down, waiting for their work.
ShutdownReturns == Drained(1)

\* PoolExitReturns for shutdown(wait=False).
PoolExitNoWait(s) == TRUE

\* ThreadPoolExecutor.__exit__ returns: shutdown(wait=True).
PoolExitReturns(s) == Drained(s)

\* transfer_upload: manager.shutdown() returns and t1 is taken. The futures
\* are never asked for their results.
TransferShutdown ==
    /\ pc = "shutdown"
    /\ ShutdownReturns
    /\ result' = [result EXCEPT ![1] = "duration"]
    /\ pc' = "return"
    /\ UNCHANGED << calls, data, run, conc, run_prefix, manager, strat,
                    clients, tasks, exc, logged, puts, drawn, faults,
                    groups >>

\* ResultRaises for a loop that never asks a future for its result.
ResultNeverRaises(t) == FALSE

\* res.result() re-raises the error of a failed upload.
ResultRaises(t) == t.status = "failed"

\* for res in as_completed(futures): _ = res.result()
\* as_completed yields the finished futures in any order; the result of one
\* that succeeded is dropped, which changes nothing, so only the yield of a
\* failed future is a step: its error leaves the loop.
JoinRaise(i) ==
    /\ pc = "join"
    /\ i \in Finished(strat)
    /\ ResultRaises(tasks[strat][i])
    /\ exc' = i
    /\ pc' = "exit"
    /\ UNCHANGED << calls, data, run, conc, run_prefix, manager, strat,
                    clients, tasks, result, logged, puts, drawn, faults,
                    groups >>

\* as_completed is exhausted: every future finished and none raised.
JoinEnd ==
    /\ pc = "join"
    /\ Drained(strat)
    /\ \A i \in 1..Len(tasks[strat]) : ~ResultRaises(tasks[strat][i])
    /\ pc' = "exit"
    /\ UNCHANGED << calls, data, run, conc, run_prefix, manager, strat,
                    clients, tasks, exc, result, logged, puts, drawn, faults,
                    groups >>

\* The with block is left. Without a pending error t1 is taken; with one,
\* it propagates out of main and the entry point: the process ends.
PoolExit ==
    /\ pc = "exit"
    /\ PoolExitReturns(strat)
    /\ IF exc = 0
       THEN result' = [result EXCEPT ![strat] = "duration"] /\ pc' = "return"
       ELSE pc' = "crashed" /\ UNCHANGED result
    /\ UNCHANGED << calls, data, run, conc, run_prefix, manager, strat,
                    clients, tasks, exc, logged, puts, drawn, faults,
                    groups >>

\* An upload whose future is done is garbage once the strategy has returned;
\* one that is not is still with its worker thread.
Unfinished(t) == t.status \notin Final

\* transfer_upload: return t1 - t0. Its futures go out of scope and main
\* calls the per-task-client strategy.
TransferReturn ==
    /\ pc = "return"
    /\ strat = 1
    /\ tasks' = [tasks EXCEPT ![1] = SelectSeq(@, Unfinished)]
    /\ clients' = [clients EXCEPT ![1] = <<>>]
    /\ pc' = "call"
    /\ strat' = 2
    /\ UNCHANGED << calls, data, run, conc, run_prefix, manager, exc, result,
                    logged, puts, drawn, faults, groups >>

\* multithreaded_upload: return t1 - t0. Its futures and clients go out of
\* scope; main calls the shared-client strategy after the per-task-client
\* one, and reports after the shared-client one.
PoolReturn ==
    /\ pc = "return"
    /\ strat \in {2, 3}
    /\ tasks' = [tasks EXCEPT ![strat] = SelectSeq(@, Unfinished)]
    /\ clients' = [clients EXCEPT ![strat] = <<>>]
    /\ pc' = IF strat = 2 THEN "call" ELSE "report"
    /\ strat' = IF strat = 2 THEN 3 ELSE strat
    /\ UNCHANGED << calls, data, run, conc, run_prefix, manager, exc, result,
                    logged, puts, drawn, faults, groups >>

(***************************************************************************)
(* The report, and the entry point.                                        *)
(***************************************************************************)
\* The three "Method ... took ... to complete" lines.
TimingLines ==
    [m \in 1..3 |-> [kind |-> "took", value |-> MethodNames[m]]]

\* main's last loop; main returns to the entry point.
Report ==
    /\ pc = "report"
    /\ logged' = logged \o TimingLines
    /\ pc' = "idle"
    /\ UNCHANGED << calls, data, run, conc, run_prefix, manager, strat,
                    clients, tasks, exc, result, puts, drawn, faults,
                    groups >>

Next ==
    \/ MainStart
    \/ TransferCall
    \/ PoolCall
    \/ TransferUpload
    \/ PoolSubmit
    \/ TransferLoopEnd
    \/ PoolLoopEnd
    \/ \E s \in Strategies : \E i \in 1..Len(tasks[s]) : TakeUpload(s, i)
    \/ \E s \in Strategies : \E i \in 1..Len(tasks[s]) : StartUpload(s, i)
    \/ \E s \in Strategies : \E i \in 1..Len(tasks[s]) : UploadOk(s, i)
    \/ \E s \in Strategies : \E i \in 1..Len(tasks[s]) : UploadFail(s, i)
    \/ TransferShutdown
    \/ \E i \in 1..Len(tasks[strat]) : JoinRaise(i)
    \/ JoinEnd
    \/ PoolExit
    \/ TransferReturn
    \/ PoolReturn
    \/ Report

Spec == Init /\ [][Next]_vars

SpecKeys == InitKeys /\ [][Next]_vars

(***************************************************************************)
(* Properties.                                                             *)
(***************************************************************************)
Failed(s) == {i \in 1..Len(tasks[s]) : tasks[s][i].status = "failed"}
Succeeded(s) == {i \in 1..Len(tasks[s]) : tasks[s][i].status = "ok"}
UploadsBy(s, k) == {i \in 1..Len(tasks[s]) : tasks[s][i].client = k}

\* C1: at no time are more uploads in flight than the concurrency of the
\* running invocation, whichever strategy runs and however the worker
\* threads interleave.
InFlightWithinConcurrency ==
    /\ Cardinality(InFlight) <= conc
    /\ \A s \in Strategies : Cardinality(Running(s)) <= conc

\* C1, its case: a strategy has as many uploads in flight as the bound
\* allows, two at least, and a further upload is waiting for a worker.
BoundReachedWithBacklog ==
    \E s \in Strategies :
        /\ conc >= 2
        /\ Cardinality(Running(s)) = conc
        /\ Queued(s) # {}

\* C2 as claimed: a failed transfer of the managed-transfer strategy keeps
\* transfer_upload from returning a duration.
TransferFailureAborts ==
    Failed(1) # {} => result[1] = "none"

\* C3: once a put of a thread-pool strategy has raised, that strategy
\* returns no duration, the upload is not scheduled again, no later strategy
\* is entered and no timing line of the invocation is written; and main
\* ends by an error only with the failed upload whose error it is.
PoolFailurePropagates ==
    /\ \A s \in {2, 3} :
          Failed(s) # {} =>
             /\ s = strat
             /\ pc \in {"submit", "join", "exit", "crashed"}
             /\ result[s] = "none"
             /\ \A later \in Strategies :
                   later > s => tasks[later] = <<>> /\ result[later] = "none"
             /\ \A i, j \in 1..Len(tasks[s]) :
                   tasks[s][i].part = tasks[s][j].part => i = j
             /\ Len(logged) = 4 * run - 3
             /\ logged[Len(logged)].kind = "running"
    /\ pc = "crashed" =>
          /\ strat \in {2, 3}
          /\ exc \in Failed(strat)
          /\ result[strat] = "none"

\* C3, its case: the shared-client strategy, entered after the two others
\* returned, has ended by the error of one of several uploads.
SharedClientRunCrashed ==
    /\ pc = "crashed"
    /\ strat = 3
    /\ Len(tasks[3]) >= 2
    /\ exc \in Failed(3)

\* C4: when a strategy has taken t1, and when it returns or raises, every
\* upload it scheduled has finished, one per partition, none pending, in
\* flight or cancelled; this holds after a failure as well.
TimingStopsAfterUploads ==
    /\ pc \in {"return", "crashed"} =>
          /\ Drained(strat)
          /\ Len(tasks[strat]) = Len(groups)
    /\ \A s \in Strategies : result[s] # "none" => Drained(s)
    /\ \A s \in Strategies : s # strat => Drained(s)

\* C4, its case: a strategy has raised, and an upload scheduled after the
\* failed one has run to its end all the same.
RaisedAfterLaterUploadRan ==
    /\ pc = "crashed"
    /\ exc \in Failed(strat)
    /\ \E i \in Succeeded(strat) : i > exc

\* C5 as claimed: within one invocation of main no object key is written
\* by two different strategies.
NoCrossStrategyOverwrite ==
    \A p, q \in puts : p.key = q.key => p.strat = q.strat

\* C6 as claimed: within one strategy run two uploads, which are those of
\* two distinct partitions, never have the same object key, and no object
\* is written by two of them.
KeysUniqueWithinRun ==
    /\ \A s \in Strategies : \A i, j \in 1..Len(tasks[s]) :
          tasks[s][i].key = tasks[s][j].key => i = j
    /\ \A p, q \in puts :
          p.strat = q.strat /\ p.key = q.key => p.part = q.part

\* C7: the shared-client strategy builds one client and uploads through it
\* only; the per-task-client strategy builds as many clients as its
\* concurrency and uploads through those only, so that with more uploads
\* than clients some client has two uploads or more.
ClientsPerStrategy ==
    /\ clients[3] # <<>> => Len(clients[3]) = 1
    /\ clients[2] # <<>> => Len(clients[2]) = conc
    /\ \A s \in {2, 3} : \A i \in 1..Len(tasks[s]) :
          /\ clients[s] # <<>>
          /\ tasks[s][i].client \in 1..Len(clients[s])
    /\ Len(tasks[2]) > conc =>
          \E k \in 1..conc : Cardinality(UploadsBy(2, k)) >= 2

\* C7, its case: the per-task-client strategy has finished more uploads
\* than the two or more clients it built, and used more than one of them.
MoreUploadsThanClients ==
    /\ strat = 2
    /\ pc = "return"
    /\ Len(clients[2]) >= 2
    /\ Len(tasks[2]) > Len(clients[2])
    /\ \E i, j \in 1..Len(tasks[2]) : tasks[2][i].client # tasks[2][j].client

\* The lines log.info has written, by kind.
Lines(kind) == SelectSeq(logged, LAMBDA l : l.kind = kind)

\* C8: uploads exist for the strategy main is in and for no other; the
\* strategies before it have returned and those after it have not begun;
\* the log is, per invocation, the concurrency line and then, once all
\* three strategies have returned, the three timing lines in the order
\* transfer, per-task clients, shared client; the entry point's invocations
\* follow one another with concurrency 4, 8, 20.
StrategiesInOrder ==
    /\ \A s \in Strategies :
          /\ tasks[s] # <<>> => s = strat
          /\ s < strat => result[s] = "duration"
          /\ s > strat => result[s] = "none"
    /\ Len(logged) = IF pc = "idle" THEN 4 * run ELSE 4 * run - 3
    /\ \A k \in 1..Len(logged) :
          IF k % 4 = 1
          THEN logged[k].kind = "running"
          ELSE logged[k] = TimingLines[(k - 1) % 4]
    /\ (pc = "idle" /\ run > 0) =>
          \A s \in Strategies : result[s] = "duration"
    /\ run > 0 => conc = Lines("running")[run].value
    /\ Len(calls) + run = Len(EntryCalls) =>
          [k \in 1..run |-> Lines("running")[k].value] \o calls = EntryCalls

\* C8, its case: the entry point has made its three calls and the last,
\* with concurrency 20, has written its timing lines.
EntryPointCompleted ==
    /\ pc = "idle"
    /\ calls = <<>>
    /\ run = Len(EntryCalls)
    /\ conc = 20
    /\ Len(Lines("took")) = 9

\* C9 as claimed: two invocations of main whose draws differ have different
\* run identifiers, and no key of the one is a key of the other.
RunIdentifiersDiffer ==
    \A a, b \in drawn :
        a # b =>
           /\ RunPrefix(a) # RunPrefix(b)
           /\ \A g, h \in 1..Len(groups) :
                 ManagerKey(RunPrefix(a), grouping_cols, groups[g])
                    # ManagerKey(RunPrefix(b), grouping_cols, groups[h])

\* C10 as claimed: every client an upload is issued through has a
\* connection pool of the size of the invocation's concurrency.
ClientPoolsMatchConcurrency ==
    \A s \in Strategies : \A i \in 1..Len(tasks[s]) :
        clients[s] # <<>> => clients[s][tasks[s][i].client].pool = conc

====
